---- MODULE Spec2Model ----
(***************************************************************************)
(* A model of revitron/parameter.py: the Parameter accessor and its        *)
(* bind / isBoundToCategory helpers, ParameterValueProvider,               *)
(* BuiltInParameterNameMap and ParameterTemplate.                          *)
(*                                                                         *)
(* The host (the Revit document, the shared parameter file, the element's  *)
(* parameters, the BuiltInParameter enumeration) is the state.  Every      *)
(* method of the module is a pure operator from the state it reads to a    *)
(* record holding the state it leaves, the value it returns (ret) and      *)
(* whether it raised; an action applies one operator to the variables.     *)
(***************************************************************************)
EXTENDS Integers, Sequences, FiniteSets, TLC

VARIABLES
    groups,        \* APP.OpenSharedParameterFile().Groups, in file order
    sharedParams,  \* definitions of the document's SharedParameterElements
    bindings,      \* DOC.ParameterBindings, in ForwardIterator order
    params,        \* the element's parameters, by name (LookupParameter)
    nameMap,       \* the live BuiltInParameterNameMap instance's map
    enumerations,  \* how often BuiltInParameter was enumerated
    writes,        \* how often the host's Parameter.Set was called
    template,      \* ParameterTemplate.template
    sanitize,      \* ParameterTemplate.sanitize
    op             \* the last call: its name, arguments, result

vars == <<groups, sharedParams, bindings, params, nameMap, enumerations,
          writes, template, sanitize, op>>

(***************************************************************************)
(* Python values.  The tag t fixes the type of v.                          *)
(***************************************************************************)
PyNone == [t |-> "None", v |-> 0]
PyBool(b) == [t |-> "bool", v |-> b]
PyStr(s) == [t |-> "str", v |-> s]
PyInt(i) == [t |-> "int", v |-> i]
PyFloat(i) == [t |-> "float", v |-> i]
ElementId(i) == [t |-> "ElementId", v |-> i]

\* Python truth of a value: None, False, 0, 0.0 and '' are falsy; an object
\* of the host (an ElementId, a provider) is truthy.
Truthy(x) ==
    CASE x.t = "None" -> FALSE
      [] x.t = "bool" -> x.v
      [] x.t = "int" -> x.v # 0
      [] x.t = "float" -> x.v # 0
      [] x.t = "str" -> x.v # <<>>
      [] OTHER -> TRUE

NoCall == [name |-> "none", args |-> <<>>, ret |-> PyNone, raised |-> FALSE]
Call(name, args, ret, raised) ==
    [name |-> name, args |-> args, ret |-> ret, raised |-> raised]

\* The index of the first element of seq whose Name is name, 0 when there
\* is none: a for loop that breaks on the first hit.
FirstNamed(seq, name) ==
    IF \E i \in 1..Len(seq) : seq[i].Name = name
    THEN CHOOSE i \in 1..Len(seq) :
            seq[i].Name = name /\ \A j \in 1..(i - 1) : seq[j].Name # name
    ELSE 0

(***************************************************************************)
(* The shared parameter file and the document's bindings.                  *)
(***************************************************************************)
ParamNames == {"p1", "p2"}
Categories == {"Walls", "Doors"}
ParamTypes == {"Text", "Bogus"}
\* The members of DB.ParameterType among ParamTypes: getattr raises for
\* the others.
HostParameterTypes == {"Text"}
ApiGroup == "__API"

\* The element id the document gives the definition of a parameter name.
DefinitionId == [n \in {"p1", "p2", "Mark"} |->
                    CASE n = "p1" -> 101 [] n = "p2" -> 102 [] OTHER -> 103]
Definition(n) == [Name |-> n, Id |-> DefinitionId[n]]

\* DOC.ParameterBindings[definition]: the binding's categories, or None.
NoBinding == [none |-> TRUE]
BindingMapItem(bs, definition) ==
    IF \E i \in 1..Len(bs) : bs[i].Key = definition
    THEN bs[CHOOSE i \in 1..Len(bs) : bs[i].Key = definition]
    ELSE NoBinding

\* Parameter.isBoundToCategory
isBoundToCategory(shared, bs, category, paramName) ==
    LET i == FirstNamed(shared, paramName)
    IN  IF i = 0
        THEN [ret |-> PyNone, raised |-> FALSE]
        ELSE LET binding == BindingMapItem(bs, shared[i])
             IN  IF binding = NoBinding
                 THEN \* None has no attribute Categories
                      [ret |-> PyNone, raised |-> TRUE]
                 ELSE IF category \in binding.Categories
                      THEN [ret |-> PyBool(TRUE), raised |-> FALSE]
                      ELSE [ret |-> PyNone, raised |-> FALSE]

\* DOC.ParameterBindings.Insert(definition, binding): the host adds the
\* binding, and the shared parameter element it belongs to, unless the
\* definition is bound already; then it returns False and changes nothing.
BindingMapInsert(shared, bs, name, categories) ==
    IF \E i \in 1..Len(bs) : bs[i].Key.Name = name
    THEN [sharedParams |-> shared, bindings |-> bs]
    ELSE [sharedParams |->
              IF \E i \in 1..Len(shared) : shared[i].Name = name
              THEN shared ELSE Append(shared, Definition(name)),
          bindings |->
              Append(bs, [Key |-> Definition(name), Categories |-> categories])]

\* A plausible slip: the group is created without looking for it.
FindOrCreateGroup_AlwaysCreate(gs) ==
    [groups |-> Append(gs, [Name |-> ApiGroup, Definitions |-> <<>>]),
     index |-> Len(gs) + 1]

\* Lines 63-69 of bind: the '__API' group is looked up and created when
\* missing.  The groups, and the index of the group.
FindOrCreateGroup(gs) ==
    LET i == FirstNamed(gs, ApiGroup)
    IN  IF i # 0
        THEN [groups |-> gs, index |-> i]
        ELSE [groups |-> Append(gs, [Name |-> ApiGroup, Definitions |-> <<>>]),
              index |-> Len(gs) + 1]

\* Lines 71-79 of bind: the definition is looked up in the group and
\* created when missing; getattr raises for an unknown parameter type.
FindOrCreateDefinition(gs, g, paramName, paramType) ==
    LET i == FirstNamed(gs[g].Definitions, paramName)
    IN  IF i # 0
        THEN [groups |-> gs, raised |-> FALSE]
        ELSE IF paramType \notin HostParameterTypes
             THEN [groups |-> gs, raised |-> TRUE]
             ELSE [groups |->
                       [gs EXCEPT ![g].Definitions =
                           Append(@, [Name |-> paramName, Type |-> paramType])],
                   raised |-> FALSE]

\* A plausible slip: bind without its early return at lines 56-57.
bind_NoEarlyReturn(gs, shared, bs, category, paramName, paramType) ==
    LET grp == FindOrCreateGroup(gs)
        def == FindOrCreateDefinition(grp.groups, grp.index, paramName, paramType)
        doc == BindingMapInsert(shared, bs, paramName, {category})
    IN  IF def.raised
        THEN [groups |-> def.groups, sharedParams |-> shared,
              bindings |-> bs, ret |-> PyNone, raised |-> TRUE]
        ELSE [groups |-> def.groups, sharedParams |-> doc.sharedParams,
              bindings |-> doc.bindings, ret |-> PyNone, raised |-> FALSE]

\* Parameter.bind
bind(gs, shared, bs, category, paramName, paramType) ==
    LET bound == isBoundToCategory(shared, bs, category, paramName)
        same == [groups |-> gs, sharedParams |-> shared, bindings |-> bs]
    IN  IF bound.raised
        THEN same @@ [ret |-> PyNone, raised |-> TRUE]
        ELSE IF Truthy(bound.ret)
        THEN same @@ [ret |-> PyBool(TRUE), raised |-> FALSE]
        ELSE LET grp == FindOrCreateGroup(gs)
                 def == FindOrCreateDefinition(grp.groups, grp.index,
                                               paramName, paramType)
                 doc == BindingMapInsert(shared, bs, paramName, {category})
             IN  IF def.raised
                 THEN [groups |-> def.groups, sharedParams |-> shared,
                       bindings |-> bs, ret |-> PyNone, raised |-> TRUE]
                 ELSE [groups |-> def.groups,
                       sharedParams |-> doc.sharedParams,
                       bindings |-> doc.bindings,
                       ret |-> PyNone, raised |-> FALSE]

(***************************************************************************)
(* Initial states of the file and the document.                            *)
(***************************************************************************)
\* The sequences without repetition over the elements of S.
RECURSIVE Arrangements(_)
Arrangements(S) ==
    {<<>>} \cup UNION {{<<x>> \o a : a \in Arrangements(S \ {x})} : x \in S}

FileDefinitions ==
    {[i \in 1..Len(a) |-> [Name |-> a[i], Type |-> "Length"]] :
        a \in Arrangements(ParamNames)}
OtherGroup == [Name |-> "Other", Definitions |-> <<[Name |-> "q", Type |-> "Text"]>>]
\* A shared parameter file: at most one '__API' group, every definition
\* name at most once in it, before or after a group of another name.
InitialFiles ==
    LET api == {[Name |-> ApiGroup, Definitions |-> d] : d \in FileDefinitions}
    IN  {<<>>, <<OtherGroup>>}
        \cup {<<a>> : a \in api}
        \cup {<<a, OtherGroup>> : a \in api}
        \cup {<<OtherGroup, a>> : a \in api}

\* A document: its shared parameters, each unbound or bound to a
\* non-empty set of categories.
InitialDocs ==
    {[sharedParams |-> [i \in 1..Len(a) |-> Definition(a[i])],
      bindings |-> [i \in 1..Len(b) |->
                       [Key |-> Definition(b[i]), Categories |-> c[b[i]]]]] :
        <<a, b, c>> \in
            {<<a, b, c>> \in Arrangements(ParamNames) \X Arrangements(ParamNames)
                             \X [ParamNames -> SUBSET Categories \ {{}}] :
                /\ \A i \in 1..Len(b) : \E j \in 1..Len(a) : a[j] = b[i]
                /\ \A n \in ParamNames :
                      (\A i \in 1..Len(b) : b[i] # n) => c[n] = Categories}}

NoParam == [none |-> TRUE]
NoMap == [none |-> TRUE]

InitBind ==
    /\ groups \in InitialFiles
    /\ \E d \in InitialDocs :
          /\ sharedParams = d.sharedParams
          /\ bindings = d.bindings
    /\ params = NoParam
    /\ nameMap = NoMap
    /\ enumerations = 0
    /\ writes = 0
    /\ template = <<>>
    /\ sanitize = FALSE
    /\ op = NoCall

IsBoundToCategory(category, paramName) ==
    LET r == isBoundToCategory(sharedParams, bindings, category, paramName)
    IN  /\ op' = Call("isBoundToCategory", <<category, paramName>>, r.ret, r.raised)
        /\ UNCHANGED <<groups, sharedParams, bindings, params, nameMap,
                       enumerations, writes, template, sanitize>>

Bind(category, paramName, paramType) ==
    LET r == bind(groups, sharedParams, bindings, category, paramName, paramType)
    IN  /\ groups' = r.groups
        /\ sharedParams' = r.sharedParams
        /\ bindings' = r.bindings
        /\ op' = Call("bind", <<category, paramName, paramType>>, r.ret, r.raised)
        /\ UNCHANGED <<params, nameMap, enumerations, writes, template, sanitize>>

NextBind ==
    \/ \E c \in Categories, n \in ParamNames : IsBoundToCategory(c, n)
    \/ \E c \in Categories, n \in ParamNames, t \in ParamTypes : Bind(c, n, t)

SpecBind == InitBind /\ [][NextBind]_vars

(***************************************************************************)
(* Claims about bind and isBoundToCategory, under SpecBind.                *)
(***************************************************************************)
\* The document holds a shared parameter named paramName whose binding
\* contains the category.
HoldsBinding(category, paramName) ==
    \E i \in 1..Len(sharedParams) :
        /\ sharedParams[i].Name = paramName
        /\ BindingMapItem(bindings, sharedParams[i]) # NoBinding
        /\ category \in BindingMapItem(bindings, sharedParams[i]).Categories

\* C1: after bind(category, paramName, paramType) completes,
\* isBoundToCategory(category, paramName) returns True, whatever the file
\* and the bindings were before.
C1_BoundAfterBind ==
    (op.name = "bind" /\ ~op.raised) =>
        LET r == isBoundToCategory(sharedParams, bindings, op.args[1], op.args[2])
        IN  ~r.raised /\ r.ret = PyBool(TRUE)

\* C2: isBoundToCategory returns True exactly when the document holds a
\* shared parameter of that name whose binding contains the category, and
\* in every other case returns a falsy value and does not raise.
C2_IsBoundExactly ==
    op.name = "isBoundToCategory" =>
        /\ ~op.raised
        /\ IF HoldsBinding(op.args[1], op.args[2])
           THEN op.ret = PyBool(TRUE)
           ELSE ~Truthy(op.ret)

\* The state bind leaves, without what it returns.
StateOf(r) == <<r.groups, r.sharedParams, r.bindings>>

\* C7: bind is idempotent.  Where isBoundToCategory(category, paramName)
\* holds, bind returns True and leaves the file and the bindings as they
\* are; and a second bind with the same arguments leaves the state the
\* first one left.
C7_BindIdempotent ==
    \A c \in Categories, n \in ParamNames, t \in ParamTypes :
        LET bound == isBoundToCategory(sharedParams, bindings, c, n)
            once == bind(groups, sharedParams, bindings, c, n, t)
            twice == bind(once.groups, once.sharedParams, once.bindings, c, n, t)
        IN  /\ (~bound.raised /\ Truthy(bound.ret)) =>
                  /\ once.ret = PyBool(TRUE)
                  /\ ~once.raised
                  /\ StateOf(once) = <<groups, sharedParams, bindings>>
            /\ StateOf(twice) = StateOf(once)

\* A bind has run that found the parameter bound and returned True.
C7_Witness ==
    /\ op.name = "bind"
    /\ op.ret = PyBool(TRUE)
    /\ HoldsBinding(op.args[1], op.args[2])

ApiGroups == {i \in 1..Len(groups) : groups[i].Name = ApiGroup}

\* C8: the file has at most one group named '__API', and that group has
\* at most one definition of each name.
C8_OneGroupOneDefinition ==
    /\ Cardinality(ApiGroups) <= 1
    /\ \A g \in ApiGroups :
          \A i, j \in 1..Len(groups[g].Definitions) :
              groups[g].Definitions[i].Name = groups[g].Definitions[j].Name
                  => i = j

\* A bind has added a definition (of type Text) to an '__API' group that
\* held one (of type Length) before.
C8_Witness ==
    /\ op.name = "bind"
    /\ \E g \in ApiGroups :
          \E i, j \in 1..Len(groups[g].Definitions) :
              /\ groups[g].Definitions[i].Type = "Length"
              /\ groups[g].Definitions[j].Type = "Text"

(***************************************************************************)
(* The Parameter accessor.  A host parameter has a storage type, may have  *)
(* a value and may be read-only; LookupParameter gives None for a name the *)
(* element has no parameter of.                                            *)
(***************************************************************************)
MaxValue == 2
MaxWrites == 2
Values == 0..MaxValue
StorageTypes == {"String", "Integer", "Double", "ElementId", "None"}
ElementParams == {"p1"}
LookupNames == {"p1", "p2"}

HostParameters ==
    {p \in [StorageType : StorageTypes, HasValue : BOOLEAN,
            IsReadOnly : BOOLEAN, Value : Values] :
        ~p.HasValue => p.Value = 0}

\* The string of n characters "a"; the empty string for 0.
StringOf(n) == [i \in 1..n |-> "a"]

\* The host's getters: each gives the value for a parameter of its storage
\* type and the host's default for any other.
AsString(p) ==
    IF p.StorageType = "String" THEN PyStr(StringOf(p.Value)) ELSE PyNone
AsValueString(p) ==
    IF p.StorageType \in {"Integer", "Double", "ElementId"}
    THEN PyStr(<<"#">> \o StringOf(p.Value)) ELSE PyNone
AsInteger(p) == PyInt(IF p.StorageType = "Integer" THEN p.Value ELSE 0)
AsDouble(p) == PyFloat(IF p.StorageType = "Double" THEN p.Value ELSE 0)
AsElementId(p) ==
    ElementId(IF p.StorageType = "ElementId" THEN p.Value ELSE 0 - 1)

\* Parameter.__init__: element.LookupParameter(name)
LookupParameter(ps, name) == IF name \in DOMAIN ps THEN ps[name] ELSE NoParam

\* Parameter.exists
exists(parameter) == PyBool(parameter # NoParam)

\* Parameter.hasValue
hasValue(parameter) ==
    IF Truthy(exists(parameter)) THEN PyBool(parameter.HasValue) ELSE PyNone

\* A plausible slip: getString without its final return of ''.
getString_NoDefault(parameter) ==
    IF Truthy(hasValue(parameter)) THEN AsString(parameter) ELSE PyNone

\* Parameter.getString
getString(parameter) ==
    IF Truthy(hasValue(parameter)) THEN AsString(parameter) ELSE PyStr(<<>>)

\* Parameter.getValueString
getValueString(parameter) ==
    IF Truthy(hasValue(parameter)) THEN AsValueString(parameter) ELSE PyStr(<<>>)

\* Parameter.getInteger
getInteger(parameter) ==
    IF Truthy(hasValue(parameter)) THEN AsInteger(parameter) ELSE PyInt(0)

\* Parameter.getDouble
getDouble(parameter) ==
    IF Truthy(hasValue(parameter)) THEN AsDouble(parameter) ELSE PyFloat(0)

\* Parameter.getElementId
getElementId(parameter) ==
    IF Truthy(hasValue(parameter)) THEN AsElementId(parameter) ELSE PyInt(0)

\* The keys of the switcher dictionary of Parameter.get, and the getter
\* each selects.
SwitcherKeys == {"String", "ValueString", "Integer", "Double", "ElementId"}
Switcher(key, parameter) ==
    CASE key = "String" -> getString(parameter)
      [] key = "ValueString" -> getValueString(parameter)
      [] key = "Integer" -> getInteger(parameter)
      [] key = "Double" -> getDouble(parameter)
      [] key = "ElementId" -> getElementId(parameter)

\* Parameter.get: switcher.get(storageType) is None for a storage type
\* that is no key, and calling None raises.
get(parameter) ==
    LET storageType == IF Truthy(exists(parameter))
                       THEN parameter.StorageType ELSE "String"
    IN  IF storageType \in SwitcherKeys
        THEN [ret |-> Switcher(storageType, parameter), raised |-> FALSE]
        ELSE [ret |-> PyNone, raised |-> TRUE]

\* A plausible slip: set without its read-only test.
set_NoReadOnlyTest(parameter, value) ==
    IF parameter # NoParam
    THEN [parameter |-> [parameter EXCEPT !.Value = value, !.HasValue = TRUE],
          wrote |-> TRUE]
    ELSE [parameter |-> parameter, wrote |-> FALSE]

\* Parameter.set: the parameter after the call, and whether the host's Set
\* was called.
set(parameter, value) ==
    IF parameter # NoParam /\ ~parameter.IsReadOnly
    THEN [parameter |-> [parameter EXCEPT !.Value = value, !.HasValue = TRUE],
          wrote |-> TRUE]
    ELSE [parameter |-> parameter, wrote |-> FALSE]

InitParam ==
    /\ params \in [ElementParams -> HostParameters \cup {NoParam}]
    /\ groups = <<>>
    /\ sharedParams = <<>>
    /\ bindings = <<>>
    /\ nameMap = NoMap
    /\ enumerations = 0
    /\ writes = 0
    /\ template = <<>>
    /\ sanitize = FALSE
    /\ op = NoCall

Accessor(name, method, r) ==
    /\ op' = Call(method, <<name>>, r.ret, r.raised)
    /\ UNCHANGED <<groups, sharedParams, bindings, params, nameMap,
                   enumerations, writes, template, sanitize>>

Returned(x) == [ret |-> x, raised |-> FALSE]

Exists(name) ==
    Accessor(name, "exists", Returned(exists(LookupParameter(params, name))))
HasValue(name) ==
    Accessor(name, "hasValue", Returned(hasValue(LookupParameter(params, name))))
Get(name) ==
    Accessor(name, "get", get(LookupParameter(params, name)))
GetString(name) ==
    Accessor(name, "getString", Returned(getString(LookupParameter(params, name))))
GetValueString(name) ==
    Accessor(name, "getValueString",
             Returned(getValueString(LookupParameter(params, name))))
GetInteger(name) ==
    Accessor(name, "getInteger", Returned(getInteger(LookupParameter(params, name))))
GetDouble(name) ==
    Accessor(name, "getDouble", Returned(getDouble(LookupParameter(params, name))))
GetElementId(name) ==
    Accessor(name, "getElementId",
             Returned(getElementId(LookupParameter(params, name))))

Set(name, value) ==
    LET r == set(LookupParameter(params, name), value)
    IN  /\ writes < MaxWrites
        /\ params' = IF name \in DOMAIN params
                     THEN [params EXCEPT ![name] = r.parameter] ELSE params
        /\ writes' = IF r.wrote THEN writes + 1 ELSE writes
        /\ op' = Call("set", <<name, value>>, PyNone, FALSE)
        /\ UNCHANGED <<groups, sharedParams, bindings, nameMap, enumerations,
                       template, sanitize>>

NextParam ==
    \/ \E n \in LookupNames : Exists(n)
    \/ \E n \in LookupNames : HasValue(n)
    \/ \E n \in LookupNames : Get(n)
    \/ \E n \in LookupNames : GetString(n)
    \/ \E n \in LookupNames : GetValueString(n)
    \/ \E n \in LookupNames : GetInteger(n)
    \/ \E n \in LookupNames : GetDouble(n)
    \/ \E n \in LookupNames : GetElementId(n)
    \/ \E n \in LookupNames, v \in Values : Set(n, v)

SpecParam == InitParam /\ [][NextParam]_vars

(***************************************************************************)
(* Claims about the accessor, under SpecParam.                             *)
(***************************************************************************)
\* The parameter the last call was made on.
Handle == LookupParameter(params, op.args[1])
NotFound == Handle = NoParam
WithoutValue == Handle # NoParam /\ ~Handle.HasValue

GetterOf(parameter) ==
    CASE parameter.StorageType = "String" -> getString(parameter)
      [] parameter.StorageType = "Integer" -> getInteger(parameter)
      [] parameter.StorageType = "Double" -> getDouble(parameter)
      [] parameter.StorageType = "ElementId" -> getElementId(parameter)
      [] OTHER -> PyNone

\* C4: get() is total on the storage types the host reports for an
\* existing parameter (String, Integer, Double, ElementId, None): it
\* returns the result of the getter of that type and never fails.
C4_GetTotal ==
    (op.name = "get" /\ ~NotFound) =>
        /\ ~op.raised
        /\ Handle.StorageType # "None" => op.ret = GetterOf(Handle)

\* C9: set calls the host's Set exactly when the parameter exists and is
\* not read-only; when it was not found or is read-only, nothing is
\* written, the parameters stay as they are, and set does not raise.
C9_SetWritesExactly ==
    [][op'.name = "set" =>
        LET parameter == LookupParameter(params, op'.args[1])
        IN  /\ ~op'.raised
            /\ IF parameter # NoParam /\ ~parameter.IsReadOnly
               THEN /\ writes' = writes + 1
                    /\ params'[op'.args[1]].Value = op'.args[2]
               ELSE /\ writes' = writes
                    /\ params' = params]_vars

\* set has run, with another value, on a read-only parameter that has a
\* value: the value is as it was and nothing was written.
C9_Witness ==
    /\ op.name = "set"
    /\ ~NotFound
    /\ Handle.IsReadOnly
    /\ Handle.HasValue
    /\ Handle.Value # op.args[2]
    /\ writes = 0

(***************************************************************************)
(* BuiltInParameterNameMap and ParameterValueProvider.                     *)
(***************************************************************************)
MaxEnumerations == 3
NoLabel == "<raises>"

\* dir(DB.BuiltInParameter), in its order: the members of the enumeration,
\* each with its integer value and the label LabelUtils.GetLabelFor gives
\* it, and the attributes that are no member.  GetLabelFor raises for
\* INVALID and for what is no member; two members share the label Mark.
BuiltInParameter ==
    << [Item |-> "ALL_MODEL_MARK", Value |-> 0 - 1001, Label |-> "Mark"],
       [Item |-> "DOOR_NUMBER", Value |-> 0 - 1002, Label |-> "Mark"],
       [Item |-> "INVALID", Value |-> 0 - 1, Label |-> NoLabel],
       [Item |-> "ROOM_AREA", Value |-> 0 - 1003, Label |-> "Area"],
       [Item |-> "ToString", Value |-> 0, Label |-> NoLabel] >>

\* The loop of BuiltInParameterNameMap.__init__ from item i on: map[name]
\* is set for every item that has a label, a later item replacing an
\* earlier one of the same label.
RECURSIVE FillMap(_, _)
FillMap(map, i) ==
    IF i > Len(BuiltInParameter) THEN map
    ELSE LET item == BuiltInParameter[i]
         IN  IF item.Label = NoLabel
             THEN FillMap(map, i + 1)
             ELSE FillMap((item.Label :> item.Value) @@ map, i + 1)

\* BuiltInParameterNameMap.__init__: self.map
BuiltInParameterNameMap == FillMap(<<>>, 1)

\* BuiltInParameterNameMap.getId: self.map[name] raises for a name that is
\* no key.
getId(map, name) ==
    IF name \in DOMAIN map
    THEN [ret |-> ElementId(map[name]), raised |-> FALSE]
    ELSE [ret |-> PyNone, raised |-> TRUE]

\* The loop over DOC.ParameterBindings.ForwardIterator() from entry i on:
\* paramId is the id of the last key of that name.
RECURSIVE KeyIdByName(_, _, _, _)
KeyIdByName(bs, name, i, paramId) ==
    IF i > Len(bs) THEN paramId
    ELSE KeyIdByName(bs, name, i + 1,
                     IF bs[i].Key.Name = name
                     THEN ElementId(bs[i].Key.Id) ELSE paramId)

\* DB.ParameterValueProvider(paramId)
HostProvider(paramId) == [t |-> "ParameterValueProvider", v |-> paramId.v]

\* A plausible slip: the built-in lookup outside try, so that the KeyError
\* of a name that is no label leaves __init__.
ParameterValueProvider_NoTry(bs, name) ==
    LET found == KeyIdByName(bs, name, 1, PyNone)
        builtIn == getId(BuiltInParameterNameMap, name)
    IN  IF Truthy(found)
        THEN [provider |-> HostProvider(found), enumerated |-> FALSE,
              raised |-> FALSE]
        ELSE [provider |-> IF builtIn.raised THEN PyNone
                           ELSE HostProvider(builtIn.ret),
              enumerated |-> TRUE, raised |-> builtIn.raised]

\* A plausible slip: the built-in map is built before the bindings are
\* looked at.
ParameterValueProvider_EagerMap(bs, name) ==
    LET found == KeyIdByName(bs, name, 1, PyNone)
        builtIn == getId(BuiltInParameterNameMap, name)
        paramId == IF Truthy(found) THEN found ELSE builtIn.ret
    IN  [provider |-> IF Truthy(paramId) THEN HostProvider(paramId) ELSE PyNone,
         enumerated |-> TRUE, raised |-> FALSE]

\* ParameterValueProvider.__init__: self.provider, whether a
\* BuiltInParameterNameMap was built, and whether __init__ raised.
ParameterValueProvider(bs, name) ==
    LET found == KeyIdByName(bs, name, 1, PyNone)
        builtIn == IF ~Truthy(found)
                   THEN getId(BuiltInParameterNameMap, name)
                   ELSE [ret |-> PyNone, raised |-> FALSE]
        paramId == IF ~Truthy(found) THEN builtIn.ret ELSE found
    IN  [provider |-> IF Truthy(paramId) THEN HostProvider(paramId) ELSE PyNone,
         enumerated |-> ~Truthy(found),
         raised |-> FALSE]

ProviderNames == {"p1", "Mark", "Area", "Volume"}
\* The keys of the document's bindings: two definitions are named p1, one
\* has the name of a built-in parameter's label.
BindingKeys ==
    {Definition("p1"), [Name |-> "p1", Id |-> 104], Definition("Mark")}

InitProvider ==
    /\ \E ks \in Arrangements(BindingKeys) :
          bindings = [i \in 1..Len(ks) |-> [Key |-> ks[i], Categories |-> Categories]]
    /\ nameMap = NoMap
    /\ enumerations = 0
    /\ groups = <<>>
    /\ sharedParams = <<>>
    /\ params = NoParam
    /\ writes = 0
    /\ template = <<>>
    /\ sanitize = FALSE
    /\ op = NoCall

\* ParameterValueProvider(name).get()
NewParameterValueProvider(name) ==
    LET r == ParameterValueProvider(bindings, name)
    IN  /\ r.enumerated => enumerations < MaxEnumerations
        /\ enumerations' = IF r.enumerated THEN enumerations + 1 ELSE enumerations
        /\ op' = Call("ParameterValueProvider", <<name>>, r.provider, r.raised)
        /\ UNCHANGED <<groups, sharedParams, bindings, params, nameMap, writes,
                       template, sanitize>>

\* BuiltInParameterNameMap()
NewBuiltInParameterNameMap ==
    /\ enumerations < MaxEnumerations
    /\ nameMap' = BuiltInParameterNameMap
    /\ enumerations' = enumerations + 1
    /\ op' = Call("BuiltInParameterNameMap", <<>>, PyNone, FALSE)
    /\ UNCHANGED <<groups, sharedParams, bindings, params, writes, template,
                   sanitize>>

\* getId(name) on the map built last
GetId(name) ==
    /\ nameMap # NoMap
    /\ LET r == getId(nameMap, name)
       IN  op' = Call("getId", <<name>>, r.ret, r.raised)
    /\ UNCHANGED <<groups, sharedParams, bindings, params, nameMap,
                   enumerations, writes, template, sanitize>>

NextProvider ==
    \/ \E n \in ProviderNames : NewParameterValueProvider(n)
    \/ NewBuiltInParameterNameMap
    \/ \E n \in ProviderNames : GetId(n)

SpecProvider == InitProvider /\ [][NextProvider]_vars

(***************************************************************************)
(* Claims about the provider and the name map, under SpecProvider.         *)
(***************************************************************************)
\* C5, as claimed: across any sequence of provider constructions and getId
\* lookups the built-in parameters are enumerated at most once.
C5_EnumeratedAtMostOnce == enumerations <= 1

\* The ids of the keys of the bindings that have the name.
KeyIds(name) ==
    {bindings[i].Key.Id : i \in {j \in 1..Len(bindings) : bindings[j].Key.Name = name}}
\* The values of the built-in parameters that have the label.
BuiltInValues(label) ==
    {BuiltInParameter[i].Value :
        i \in {j \in 1..Len(BuiltInParameter) : BuiltInParameter[j].Label = label}}

\* C5, amended: the map is not kept.  Every BuiltInParameterNameMap()
\* enumerates the built-in parameters once, and so does every
\* ParameterValueProvider(name) whose name is no key of the bindings; a
\* getId lookup and a provider whose name is a key enumerate nothing.
C5_EnumeratedPerConstruction ==
    [][enumerations' =
          IF \/ op'.name = "BuiltInParameterNameMap"
             \/ op'.name = "ParameterValueProvider" /\ KeyIds(op'.args[1]) = {}
          THEN enumerations + 1
          ELSE enumerations]_vars

\* A second enumeration has been made, by a provider constructed for a
\* built-in label.
C5_Witness ==
    /\ enumerations = 2
    /\ op.name = "ParameterValueProvider"
    /\ KeyIds(op.args[1]) = {}
    /\ op.ret.t = "ParameterValueProvider"

\* C10: ParameterValueProvider(name) never raises; a name that is a key of
\* the bindings gives a provider for that key's id without the built-in
\* map being built; otherwise a name that is a built-in label gives a
\* provider for the built-in id; a name that is neither gives None.
C10_ProviderResolves ==
    [][op'.name = "ParameterValueProvider" =>
        LET name == op'.args[1]
        IN  /\ ~op'.raised
            /\ IF KeyIds(name) # {}
               THEN /\ op'.ret.t = "ParameterValueProvider"
                    /\ op'.ret.v \in KeyIds(name)
                    /\ enumerations' = enumerations
               ELSE IF BuiltInValues(name) # {}
               THEN /\ op'.ret.t = "ParameterValueProvider"
                    /\ op'.ret.v \in BuiltInValues(name)
               ELSE op'.ret = PyNone]_vars

\* A provider has been asked for a name that is neither a key nor a label,
\* and is None; the map was enumerated for it.
C10_Witness ==
    /\ op.name = "ParameterValueProvider"
    /\ op.args[1] = "Volume"
    /\ op.ret = PyNone
    /\ ~op.raised
    /\ enumerations > 0

(***************************************************************************)
(* ParameterTemplate.  A string is the sequence of its characters.         *)
(***************************************************************************)
MaxLen == 4
Newline == "\n"
Alphabet == {"{", "}", "a", Newline}
\* The strings of at most n characters.
RECURSIVE Strings(_)
Strings(n) ==
    IF n = 0 THEN {<<>>}
    ELSE Strings(n - 1)
         \cup {Append(s, c) : s \in {x \in Strings(n - 1) : Len(x) = n - 1},
                              c \in Alphabet}

\* The values the element's parameter 'a' may have, one of them a
\* placeholder itself.
ParameterValues == {<<"a", "a">>, <<"{", "a", "}">>}

\* revitron.Element(element).get(name): the value of the element's
\* parameter of that name, '' when it has none.
ElementGet(ps, name) == IF name \in DOMAIN ps THEN ps[name] ELSE <<>>

\* revitron.String.sanitize: every character that is neither a letter nor
\* a digit is replaced by an underscore.
StringSanitize(string) ==
    [i \in 1..Len(string) |-> IF string[i] = "a" THEN "a" ELSE "_"]

\* A plausible slip: the callback sanitizes whatever the flag says.
reCallback_AlwaysSanitize(ps, san, name) == StringSanitize(ElementGet(ps, name))

\* ParameterTemplate.reCallback, on match.group(1)
reCallback(ps, san, name) ==
    LET string == ElementGet(ps, name)
    IN  IF san THEN StringSanitize(string) ELSE string

\* The regular expression \{(.+?)\} tried at position i of s, the '{'
\* matched and k - 1 characters taken by '.+?' so far: the lazy '.+?'
\* takes one more character, which may not be a newline, and gives way to
\* '\}' as soon as that matches.  The position of the closing '}', 0 when
\* there is no match at i.
RECURSIVE LazyDot(_, _, _)
LazyDot(s, i, k) ==
    IF i + k > Len(s) THEN 0
    ELSE IF s[i + k] = Newline THEN 0
    ELSE IF i + k + 1 <= Len(s) /\ s[i + k + 1] = "}" THEN i + k + 1
    ELSE LazyDot(s, i, k + 1)

MatchAt(s, i) == IF s[i] = "{" THEN LazyDot(s, i, 1) ELSE 0

\* re.sub from position pos on: the leftmost match is replaced by what the
\* callback returns and the scan goes on behind it; a character no match
\* starts at is copied.
RECURSIVE Sub(_, _, _, _)
Sub(s, ps, san, pos) ==
    IF pos > Len(s) THEN <<>>
    ELSE LET e == MatchAt(s, pos)
         IN  IF e # 0
             THEN reCallback(ps, san, SubSeq(s, pos + 1, e - 1))
                  \o Sub(s, ps, san, e + 1)
             ELSE <<s[pos]>> \o Sub(s, ps, san, pos + 1)

\* ParameterTemplate.render
render(t, ps, san) == Sub(t, ps, san, 1)

InitTemplate ==
    /\ template \in Strings(MaxLen)
    /\ sanitize \in BOOLEAN
    /\ params \in [{<<"a">>} -> ParameterValues]
    /\ groups = <<>>
    /\ sharedParams = <<>>
    /\ bindings = <<>>
    /\ nameMap = NoMap
    /\ enumerations = 0
    /\ writes = 0
    /\ op = NoCall

Render ==
    /\ op' = Call("render", <<>>, PyStr(render(template, params, sanitize)), FALSE)
    /\ UNCHANGED <<groups, sharedParams, bindings, params, nameMap,
                   enumerations, writes, template, sanitize>>

NextTemplate == Render

SpecTemplate == InitTemplate /\ [][NextTemplate]_vars

(***************************************************************************)
(* Claims about the template, under SpecTemplate.                          *)
(***************************************************************************)
\* The placeholder that starts at the '{' at position i of s: the position
\* of the first '}' that leaves a non-empty name, 0 when there is none or,
\* unless a name may hold a newline, when the name holds one.
PlaceholderEnd(s, i, newlines) ==
    LET closing == {j \in (i + 2)..Len(s) : s[j] = "}"}
        first == CHOOSE j \in closing : \A x \in closing : j <= x
    IN  IF closing = {} THEN 0
        ELSE IF ~newlines /\ \E x \in (i + 1)..(first - 1) : s[x] = Newline
        THEN 0
        ELSE first

\* The value put for a placeholder name.
Substitute(name) ==
    LET value == IF name \in DOMAIN params THEN params[name] ELSE <<>>
    IN  IF sanitize
        THEN [i \in 1..Len(value) |-> IF value[i] = "a" THEN "a" ELSE "_"]
        ELSE value

\* The template from position pos on with every placeholder, left to
\* right, replaced by its value, the rest kept, no value scanned again.
RECURSIVE Rendered(_, _, _)
Rendered(s, pos, newlines) ==
    IF pos > Len(s) THEN <<>>
    ELSE LET e == IF s[pos] = "{" THEN PlaceholderEnd(s, pos, newlines) ELSE 0
         IN  IF e = 0
             THEN <<s[pos]>> \o Rendered(s, pos + 1, newlines)
             ELSE Substitute(SubSeq(s, pos + 1, e - 1))
                  \o Rendered(s, e + 1, newlines)

\* C6, as claimed: render() replaces every placeholder '{name}', name a
\* non-empty shortest run of any characters up to a '}', by the value of
\* the parameter, sanitized exactly when sanitize is True, and keeps the
\* rest.
C6_RenderAnyCharacter ==
    op.name = "render" => op.ret = PyStr(Rendered(template, 1, TRUE))

\* C6, amended: the same, the name being a non-empty shortest run of
\* characters other than the newline.
C6_RenderNoNewline ==
    op.name = "render" => op.ret = PyStr(Rendered(template, 1, FALSE))

\* A template of text and one placeholder has been rendered, sanitized,
\* on an element whose value is itself a placeholder.
C6_Witness ==
    /\ op.name = "render"
    /\ sanitize
    /\ params[<<"a">>] = <<"{", "a", "}">>
    /\ template = <<"a", "{", "a", "}">>
    /\ op.ret = PyStr(<<"a", "_", "a", "_">>)
====
